---- MODULE Spec2Model ----
(***************************************************************************)
(* A model of tb2ud's SubTreeConverter (src/tb2ud/subtreeconverter.py):    *)
(* the bottom-up rewriting of one sentence tree by process_tree and, in    *)
(* enhanced mode, the replacement of the surviving Artificial nodes by     *)
(* empty nodes with reconstructed secondary edges.                         *)
(*                                                                         *)
(* Strings are sequences of tokens (a relation label "cc:preconj" is       *)
(* <<"cc", ":", "preconj">>, a decimal number is one token), so that       *)
(* formatting and splitting are computed, not assumed.                     *)
(***************************************************************************)
EXTENDS Integers, Sequences, FiniteSets, TLC

VARIABLES
    tree,           \* the sentence: nodes, descendants (live tokens in word order), empty_nodes
    with_enhanced,  \* self._with_enhanced
    construction,   \* what the construction classifier answers for each node
    subtrees,       \* the subtree roots still to be visited, bottom-up
    pc,             \* where process_tree is: pre, rewrite, empty_deps, node_deps, done, raised
    error,          \* the exception that left process_tree, "" when none
    trail,          \* the primary tree after each single reparenting or removal of the last step
    visit           \* the last step's subtree root and the tree it found

vars == <<tree, with_enhanced, construction, subtrees, pc, error, trail, visit>>

---------------------------------------------------------------------------
(* Bounds *)

MaxNodes == 3

MaxOrdNodes == 11

MaxIter == 30

---------------------------------------------------------------------------
(* Strings *)

Empty == <<>>

Str(tok) == <<tok>>

Sep == <<"%", ":", "%">>

Colon == <<":">>

StartsWith(s, p) == Len(s) >= Len(p) /\ SubSeq(s, 1, Len(p)) = p

\* the least index at which sep occurs in s, 0 when it does not
Find(s, sep) ==
    LET hits == {i \in 1..Len(s) : StartsWith(SubSeq(s, i, Len(s)), sep)}
    IN  IF hits = {} THEN 0 ELSE CHOOSE i \in hits : \A j \in hits : i <= j

RECURSIVE Split(_, _)
Split(s, sep) ==
    LET i == Find(s, sep)
    IN  IF i = 0 THEN <<s>>
        ELSE <<SubSeq(s, 1, i - 1)>> \o Split(SubSeq(s, i + Len(sep), Len(s)), sep)

\* node.udeprel: the relation label without its subtype
Udeprel(deprel) == Split(deprel, Colon)[1]

\* str(k) of an ordinal: one token
Numerals == <<"1", "2", "3", "4", "5", "6", "7", "8", "9", "10",
              "11", "12", "13", "14", "15", "16", "17", "18", "19", "20">>

StrOfInt(k) == IF k = 0 THEN Str("0") ELSE Str(Numerals[k])

\* int(s) succeeds on a decimal string only
IsInt(s) == Len(s) = 1 /\ (s[1] = "0" \/ \E k \in 1..Len(Numerals) : Numerals[k] = s[1])

IntOf(s) == IF s[1] = "0" THEN 0 ELSE CHOOSE k \in 1..Len(Numerals) : Numerals[k] = s[1]

\* f'{ord}%:%{deprel}'
FormatArtDeps(ord, deprel) == StrOfInt(ord) \o Sep \o deprel

---------------------------------------------------------------------------
(* Fractional ordinals: float(f'{k}.{iter}') as the exact decimal value,   *)
(* scaled by OrdScale; 3.1 and 3.10 are the same number, 3.11 another.     *)

OrdScale == 10 * 10 * 10

Digits(i) == IF i < 10 THEN 1 ELSE IF i < 100 THEN 2 ELSE 3

Pow10(d) == IF d = 0 THEN 1 ELSE IF d = 1 THEN 10 ELSE IF d = 2 THEN 100 ELSE 1000

FloatOf(k, iter) == k * OrdScale + iter * Pow10(3 - Digits(iter))

---------------------------------------------------------------------------
(* The tree (udapi Root and Node), as the converter uses it *)

NodesOf(t) == DOMAIN t.nodes

ParentOf(t, n) == t.nodes[n].parent

Alive(t) == {t.descendants[i] : i \in 1..Len(t.descendants)}

\* node.ord: the position among the live tokens (0 for the sentence root)
Ord(t, n) ==
    IF n = 0 THEN 0
    ELSE CHOOSE i \in 1..Len(t.descendants) : t.descendants[i] = n

\* a.precedes(b)
Precedes(t, a, b) == Ord(t, a) < Ord(t, b)

\* node.children, in word order
Children(t, n) == SelectSeq(t.descendants, LAMBDA c : t.nodes[c].parent = n)

RECURSIVE Climbs(_, _, _, _)
\* following parents from a reaches b within fuel steps
Climbs(t, a, b, fuel) ==
    IF a = b THEN TRUE
    ELSE IF a = 0 \/ fuel = 0 THEN FALSE
    ELSE Climbs(t, t.nodes[a].parent, b, fuel - 1)

\* a.is_descendant_of(b)
IsDescendantOf(t, a, b) == a # b /\ Climbs(t, a, b, Cardinality(NodesOf(t)))

Snapshot(t) == [parent |-> [n \in NodesOf(t) |-> t.nodes[n].parent],
                descendants |-> t.descendants]

(* A run threads the tree through a sequence of statements: the tree, the  *)
(* snapshots taken after each change of the primary tree, and the          *)
(* exception raised, after which nothing more is executed.                 *)
StartRun(t) == [tree |-> t, trail |-> <<>>, error |-> ""]

Step(r, t) == [r EXCEPT !.tree = t, !.trail = Append(r.trail, Snapshot(t))]

Raise(r, e) == [r EXCEPT !.error = e]

\* n.parent = p: the setter refuses a cycle
SetParent(r, n, p) ==
    LET t == r.tree
    IN  IF r.error # "" THEN r
        ELSE IF t.nodes[n].parent = p THEN r
        ELSE IF n = p THEN Raise(r, "CycleError")
        ELSE IF Children(t, n) # <<>> /\ IsDescendantOf(t, p, n) THEN Raise(r, "CycleError")
        ELSE Step(r, [t EXCEPT !.nodes[n].parent = p])

\* n.deprel = d
SetDeprel(r, n, d) ==
    IF r.error # "" THEN r ELSE [r EXCEPT !.tree.nodes[n].deprel = d]

\* the nodes at or below n
Subtree(t, n) == {m \in Alive(t) : m = n \/ IsDescendantOf(t, m, n)}

\* n.remove(children="warn"): n goes, and whatever still hangs below it goes with it;
\* the remaining tokens are renumbered
RemoveWarn(r, n) ==
    LET t == r.tree
        gone == Subtree(t, n)
    IN  IF r.error # "" THEN r
        ELSE Step(r, [t EXCEPT !.descendants = SelectSeq(t.descendants, LAMBDA m : m \notin gone)])

\* a removal that forgets the children: n goes and its children keep pointing at it
RemoveForgetful(r, n) ==
    LET t == r.tree
    IN  IF r.error # "" THEN r
        ELSE Step(r, [t EXCEPT !.descendants = SelectSeq(t.descendants, LAMBDA m : m # n)])

\* n.remove(children="rehang"): the children are handed to n's parent, n goes;
\* the remaining tokens are renumbered
RemoveRehang(r, n) ==
    LET t == r.tree
        p == t.nodes[n].parent
    IN  IF r.error # "" THEN r
        ELSE Step(r, [t EXCEPT
                 !.nodes = [m \in NodesOf(t) |->
                              IF m \in Alive(t) /\ t.nodes[m].parent = n
                              THEN [t.nodes[m] EXCEPT !.parent = p] ELSE t.nodes[m]],
                 !.descendants = SelectSeq(t.descendants, LAMBDA m : m # n)])

---------------------------------------------------------------------------
(* Relation labels and tags the converter names *)

conj == Str("conj")

cc == Str("cc")

punct == Str("punct")

goeswith == Str("goeswith")

apos == Str("apos")

cop == Str("cop")

\* the open-class first letters of the fine-grained tag
OpenClass == {"a", "p", "v", "n", "t", "l", "m"}

order_list == <<Str("nsubj"), Str("obj"), Str("iobj"), Str("obl"), Str("advmod"),
                Str("csubj"), Str("xcomp"), Str("ccomp"), Str("advcl"),
                Str("dislocated"), Str("vocative"), Str("nmod")>>

IsArtificial(t, n) == n # 0 /\ t.nodes[n].misc.NodeType = "Artificial"

---------------------------------------------------------------------------
(* The collaborators of the rewriter *)

is_prague_bridge_subtree(s) == construction[s] = "bridge"

is_coord_subtree(s) == construction[s] = "coord"

is_apos_subtree(s) == construction[s] = "apos"

is_copula_subtree(s) == construction[s] = "copula"

is_ellipsis_subtree(s) == construction[s] = "ellipsis"

RECURSIVE get_first_in_priority(_, _, _)
\* the first child bearing the highest-ranked label of the list, 0 when no child bears one
get_first_in_priority(t, chs, labels) ==
    IF labels = <<>> THEN 0
    ELSE LET hits == SelectSeq(chs, LAMBDA c : t.nodes[c].deprel = Head(labels))
         IN  IF hits # <<>> THEN Head(hits)
             ELSE get_first_in_priority(t, chs, Tail(labels))

RECURSIVE Dist(_, _, _)
\* the number of edges from d up to its ancestor n
Dist(t, d, n) == IF d = n THEN 0 ELSE 1 + Dist(t, t.nodes[d].parent, n)

\* the longest path from n down to a leaf
Height(t, n) ==
    LET ds == {Dist(t, d, n) : d \in Subtree(t, n)}
    IN  CHOOSE h \in ds : \A k \in ds : k <= h

RECURSIVE SortByHeight(_, _, _)
SortByHeight(t, pending, h) ==
    IF pending = <<>> THEN <<>>
    ELSE SelectSeq(pending, LAMBDA n : Height(t, n) = h)
         \o SortByHeight(t, SelectSeq(pending, LAMBDA n : Height(t, n) # h), h + 1)

\* the non-leaf nodes, lowest first (nodes of one depth in word order)
get_subtree_depth(t) ==
    SortByHeight(t, SelectSeq(t.descendants, LAMBDA n : Children(t, n) # <<>>), 1)

---------------------------------------------------------------------------
(* redraw_subtree and attach_right *)

RECURSIVE RehangUnlessGoeswith(_, _, _)
\* for c in current_head.children: if c.udeprel != 'goeswith': c.parent = new_head
RehangUnlessGoeswith(r, cs, new_head) ==
    IF cs = <<>> THEN r
    ELSE LET c == Head(cs)
             r1 == IF Udeprel(r.tree.nodes[c].deprel) # goeswith
                   THEN SetParent(r, c, new_head) ELSE r
         IN  RehangUnlessGoeswith(r1, Tail(cs), new_head)

PassMembership(r, new_head, current_head) ==
    LET m == r.tree.nodes[current_head].misc
        r1 == IF m.AposMember
              THEN [r EXCEPT !.tree.nodes[new_head].misc.AposMember = m.AposMember] ELSE r
        r2 == IF m.CoordMember
              THEN [r1 EXCEPT !.tree.nodes[new_head].misc.CoordMember = m.CoordMember] ELSE r1
    IN  IF r.error # "" THEN r ELSE r2

redraw_subtree(r, new_head, current_head) ==
    LET subhead == r.tree.nodes[current_head].parent
        r1 == SetParent(r, new_head, subhead)
        r2 == SetParent(r1, current_head, new_head)
        r3 == PassMembership(r2, new_head, current_head)
    IN  RehangUnlessGoeswith(r3, Children(r3.tree, current_head), new_head)

\* an attach_right that leaves the element where it is
attach_right_Stay(r, element, val) == r

\* attach_right(element, 'udeprel', val)
attach_right(r, element, val) ==
    LET t == r.tree
        h == t.nodes[element].parent
        right_bros == SelectSeq(Children(t, h), LAMBDA ch : ~Precedes(t, ch, element))
        hits == SelectSeq(right_bros, LAMBDA b : Udeprel(t.nodes[b].deprel) = val)
    IN  IF r.error # "" \/ hits = <<>> THEN r
        ELSE SetParent(r, element, Head(hits))

---------------------------------------------------------------------------
(* The branches of process_tree's loop over the subtree roots *)

BridgeCandidates(t, s) ==
    SelectSeq(Children(t, s), LAMBDA c :
        \/ t.nodes[c].misc.NodeType = "Artificial"
        \/ /\ t.nodes[c].xpos[1] \in OpenClass
           /\ t.nodes[c].misc.original_dep \notin {"AuxY", "AuxZ"})

\* a bridge branch that promotes the first candidate however many there are
ProcessBridgeFirst(r, s) ==
    LET ch == BridgeCandidates(r.tree, s)
    IN  IF Len(ch) >= 1 THEN redraw_subtree(r, ch[1], s) ELSE r

\* a bridge branch that hands the label of the subtree root to the promoted child
ProcessBridgeRelabel(r, s) ==
    LET ch == BridgeCandidates(r.tree, s)
    IN  IF Len(ch) = 1
        THEN redraw_subtree(SetDeprel(r, ch[1], r.tree.nodes[s].deprel), ch[1], s)
        ELSE r

ProcessBridge(r, s) ==
    LET ch == BridgeCandidates(r.tree, s)
    IN  IF Len(ch) = 1 THEN redraw_subtree(r, ch[1], s) ELSE r

RECURSIVE HangMembers(_, _, _, _)
\* for m in members: m.parent = first; m.deprel = label
HangMembers(r, ms, first, label) ==
    IF ms = <<>> THEN r
    ELSE HangMembers(SetDeprel(SetParent(r, Head(ms), first), Head(ms), label),
                     Tail(ms), first, label)

RECURSIVE HangCoordChildren(_, _, _)
\* for c in subtree.children: c.parent = first; a non-final coordinator is labeled cc
HangCoordChildren(r, cs, first) ==
    IF cs = <<>> THEN r
    ELSE LET c == Head(cs)
             r1 == SetParent(r, c, first)
             r2 == IF r1.tree.nodes[c].misc.original_dep = "AuxY" /\ r1.tree.nodes[c].upos = "CCONJ"
                   THEN SetDeprel(r1, c, cc) ELSE r1
         IN  HangCoordChildren(r2, Tail(cs), first)

RECURSIVE HangChildren(_, _, _)
\* for c in subtree.children: c.parent = first
HangChildren(r, cs, first) ==
    IF cs = <<>> THEN r
    ELSE HangChildren(SetParent(r, Head(cs), first), Tail(cs), first)

RECURSIVE AttachRightAll(_, _, _)
\* for c in first.children: a cc or punct that does not precede first goes to the right conjunct
AttachRightAll(r, cs, first) ==
    IF cs = <<>> \/ r.error # "" THEN r
    ELSE LET c == Head(cs)
             u == Udeprel(r.tree.nodes[c].deprel)
             r1 == IF (u = cc \/ u = punct) /\ ~Precedes(r.tree, c, first)
                   THEN attach_right(r, c, conj) ELSE r
         IN  AttachRightAll(r1, Tail(cs), first)

CoordMembers(t, s) == SelectSeq(Children(t, s), LAMBDA c : t.nodes[c].misc.CoordMember = TRUE)

ProcessCoord(r, s) ==
    LET members == CoordMembers(r.tree, s)
        first == Head(members)
        r1 == SetParent(r, first, r.tree.nodes[s].parent)
        r2 == HangMembers(r1, Tail(members), first, conj)
        r3 == SetParent(r2, s, first)
        r4 == HangCoordChildren(r3, Children(r3.tree, s), first)
        r5 == IF IsArtificial(r4.tree, s) THEN RemoveWarn(r4, s) ELSE r4
    IN  IF members = <<>> THEN r
        ELSE AttachRightAll(r5, Children(r5.tree, first), first)

AposMembers(t, s) == SelectSeq(Children(t, s), LAMBDA c : t.nodes[c].misc.AposMember = TRUE)

ProcessApos(r, s) ==
    LET members == AposMembers(r.tree, s)
        first == Head(members)
        r1 == SetParent(r, first, r.tree.nodes[s].parent)
        r2 == HangMembers(r1, Tail(members), first, apos)
        r3 == HangChildren(r2, Children(r2.tree, s), first)
        r4 == SetParent(r3, s, first)
    IN  IF members = <<>> THEN r
        ELSE IF IsArtificial(r3.tree, s) THEN RemoveWarn(r3, s)
        ELSE SetDeprel(r4, s, IF r4.tree.nodes[s].upos = "PUNCT" THEN punct
                                 ELSE r4.tree.nodes[s].deprel)

Pnoms(t, s) == SelectSeq(Children(t, s), LAMBDA c : t.nodes[c].misc.original_dep = "PNOM")

\* a copula branch that rewrites only when exactly one child has original label PNOM
ProcessCopulaSingle(r, s) ==
    LET found == Pnoms(r.tree, s)
        pnom == found[1]
        r1 == SetDeprel(r, pnom, r.tree.nodes[s].deprel)
        r2 == redraw_subtree(r1, pnom, s)
    IN  IF Len(found) # 1 THEN r
        ELSE IF IsArtificial(r2.tree, s) THEN RemoveWarn(r2, s)
        ELSE SetDeprel(SetParent(r2, s, pnom), s, cop)

ProcessCopula(r, s) ==
    LET found == Pnoms(r.tree, s)
        pnom == found[1]
        r1 == SetDeprel(r, pnom, r.tree.nodes[s].deprel)
        r2 == redraw_subtree(r1, pnom, s)
    IN  IF found = <<>> THEN r
        ELSE IF IsArtificial(r2.tree, s) THEN RemoveWarn(r2, s)
        ELSE SetDeprel(SetParent(r2, s, pnom), s, cop)

\* an ellipsis branch that promotes the winner without handing it the label of the
\* subtree root
ProcessEllipsisKeepLabel(r, s) ==
    LET newhead == get_first_in_priority(r.tree, Children(r.tree, s), order_list)
    IN  IF newhead # 0 THEN redraw_subtree(r, newhead, s) ELSE r

ProcessEllipsis(r, s) ==
    LET newhead == get_first_in_priority(r.tree, Children(r.tree, s), order_list)
    IN  IF newhead # 0
        THEN redraw_subtree(SetDeprel(r, newhead, r.tree.nodes[s].deprel), newhead, s)
        ELSE r

\* the body of `for subtree, depth in subtrees`
Rewrite(r, s) ==
    IF is_prague_bridge_subtree(s) THEN ProcessBridge(r, s)
    ELSE IF is_coord_subtree(s) THEN ProcessCoord(r, s)
    ELSE IF is_apos_subtree(s) THEN ProcessApos(r, s)
    ELSE IF is_copula_subtree(s) THEN ProcessCopula(r, s)
    ELSE IF is_ellipsis_subtree(s) THEN ProcessEllipsis(r, s)
    ELSE r

---------------------------------------------------------------------------
(* The resolver: the pre-pass, copy_to_empty, the secondary edges *)

Artificials(t) == SelectSeq(t.descendants, LAMBDA n : IsArtificial(t, n))

\* n.misc['art_deps'] = f'{n.parent.ord}%:%{n.deprel}' for an Artificial node and
\* for a child of one
write_deps_in_misc(t) ==
    [t EXCEPT !.nodes = [n \in NodesOf(t) |->
        IF n \in Alive(t) /\ (IsArtificial(t, n) \/ IsArtificial(t, t.nodes[n].parent))
        THEN [t.nodes[n] EXCEPT !.misc.art_deps =
                 FormatArtDeps(Ord(t, t.nodes[n].parent), t.nodes[n].deprel)]
        ELSE t.nodes[n]]]

\* for a in arts: a.misc['original_ord'] = str(a.ord)
StampOriginalOrd(t) ==
    [t EXCEPT !.nodes = [n \in NodesOf(t) |->
        IF n \in Alive(t) /\ IsArtificial(t, n)
        THEN [t.nodes[n] EXCEPT !.misc.original_ord = StrOfInt(Ord(t, n))]
        ELSE t.nodes[n]]]

EmptyOrds(t) == {t.empty_nodes[i].ord : i \in 1..Len(t.empty_nodes)}

\* an ordinal search that takes the first value without looking at the ordinals in use
set_empty_ord_Once(t, n, iter) == FloatOf(Ord(t, n) - 1, iter)

RECURSIVE set_empty_ord(_, _, _)
\* the first of prev.1, prev.2, ... that no empty node bears; -1 when the search
\* has not ended after MaxIter rounds
set_empty_ord(t, n, iter) ==
    LET neword == FloatOf(Ord(t, n) - 1, iter)
    IN  IF iter > MaxIter THEN -1
        ELSE IF neword \in EmptyOrds(t) THEN set_empty_ord(t, n, iter + 1)
        ELSE neword

RECURSIVE CopyEach(_, _)
\* for art in artificials: create the empty node, then art.remove(children='rehang');
\* anchor (not a field of the program) keeps the ordinal of art.prev_node, which
\* the form f'E{ord_id}' was built from
CopyEach(r, arts) ==
    IF arts = <<>> \/ r.error # "" THEN r
    ELSE LET art == Head(arts)
             t == r.tree
             ord_id == set_empty_ord(t, art, 1)
             empty == [ord |-> ord_id,
                       anchor |-> Ord(t, art) - 1,
                       misc |-> [original_dep |-> t.nodes[art].misc.original_dep,
                                 AposMember |-> t.nodes[art].misc.AposMember,
                                 CoordMember |-> t.nodes[art].misc.CoordMember,
                                 art_deps |-> t.nodes[art].misc.art_deps,
                                 original_ord |-> t.nodes[art].misc.original_ord],
                       deps |-> <<>>]
             r1 == [r EXCEPT !.tree.empty_nodes = Append(t.empty_nodes, empty)]
         IN  IF ord_id = -1 THEN Raise(r, "RecursionError")
             ELSE CopyEach(RemoveRehang(r1, art), Tail(arts))

copy_to_empty(r, artificials) == CopyEach(r, artificials)

\* art_mapping = {str(e.misc['original_ord']): e for e in tree.empty_nodes}
ArtKeys(t) == {t.empty_nodes[i].misc.original_ord : i \in 1..Len(t.empty_nodes)}

ArtMapping(t, key) ==
    CHOOSE i \in 1..Len(t.empty_nodes) :
        /\ t.empty_nodes[i].misc.original_ord = key
        /\ \A j \in 1..Len(t.empty_nodes) :
              t.empty_nodes[j].misc.original_ord = key => j <= i

Dep(kind, id, rel) == [parent |-> [kind |-> kind, id |-> id], deprel |-> rel]

RECURSIVE EmptyDepsFrom(_, _)
\* for e in tree.empty_nodes: decode e.misc['art_deps'] and append the edge
EmptyDepsFrom(r, i) ==
    LET t == r.tree
        e == t.empty_nodes[i]
        parts == Split(e.misc.art_deps, Sep)
        dep == parts[1]
        rel == parts[2]
        k == IntOf(dep)
        next(target) == EmptyDepsFrom(
            [r EXCEPT !.tree.empty_nodes[i].deps = Append(e.deps, target)], i + 1)
    IN  IF i > Len(t.empty_nodes) \/ r.error # "" THEN r
        ELSE IF e.misc.art_deps = Empty THEN EmptyDepsFrom(r, i + 1)
        ELSE IF Len(parts) # 2 THEN Raise(r, "ValueError")
        ELSE IF dep \in ArtKeys(t) THEN next(Dep("empty", ArtMapping(t, dep), rel))
        ELSE IF dep = Str("0") THEN next(Dep("root", 0, rel))
        ELSE IF ~IsInt(dep) THEN Raise(r, "ValueError")
        ELSE IF k > Len(t.descendants) THEN Raise(r, "IndexError")
        ELSE next(Dep("node", t.descendants[k], rel))

RECURSIVE NodeDepsFrom(_, _)
\* for node in tree.descendants: node.misc['art_deps'].split(":") and append the edge
NodeDepsFrom(r, i) ==
    LET t == r.tree
        node == t.descendants[i]
        parts == Split(t.nodes[node].misc.art_deps, Colon)
        dep_head == parts[1]
        dep_rel == parts[2]
    IN  IF i > Len(t.descendants) \/ r.error # "" THEN r
        ELSE IF t.nodes[node].misc.art_deps = Empty THEN NodeDepsFrom(r, i + 1)
        ELSE IF Len(parts) # 2 THEN Raise(r, "ValueError")
        ELSE IF dep_head \notin ArtKeys(t) THEN NodeDepsFrom(r, i + 1)
        ELSE NodeDepsFrom(
                 [r EXCEPT !.tree.nodes[node].deps =
                      Append(t.nodes[node].deps,
                             Dep("empty", ArtMapping(t, dep_head), dep_rel))], i + 1)

---------------------------------------------------------------------------
(* process_tree, step by step *)

NoVisit == [node |-> 0, before |-> <<>>]

\* get_subtree_depth, arts and, in enhanced mode, the pre-pass
Prepare ==
    /\ pc = "pre"
    /\ subtrees' = get_subtree_depth(tree)
    /\ tree' = IF with_enhanced THEN StampOriginalOrd(write_deps_in_misc(tree)) ELSE tree
    /\ pc' = "rewrite"
    /\ trail' = <<>>
    /\ visit' = NoVisit
    /\ UNCHANGED <<with_enhanced, construction, error>>

\* one round of the loop over the subtree roots
ProcessSubtree ==
    /\ pc = "rewrite"
    /\ subtrees # <<>>
    /\ LET s == Head(subtrees)
           r == Rewrite(StartRun(tree), s)
       IN  /\ tree' = r.tree
           /\ trail' = r.trail
           /\ error' = r.error
           /\ pc' = IF r.error # "" THEN "raised" ELSE "rewrite"
           /\ visit' = [node |-> s, before |-> tree]
    /\ subtrees' = Tail(subtrees)
    /\ UNCHANGED <<with_enhanced, construction>>

\* the loop is over and no enhanced output is asked for
Finish ==
    /\ pc = "rewrite"
    /\ subtrees = <<>>
    /\ ~with_enhanced
    /\ pc' = "done"
    /\ trail' = <<>>
    /\ visit' = NoVisit
    /\ UNCHANGED <<tree, with_enhanced, construction, subtrees, error>>

\* remaining_arts and copy_to_empty
CopyToEmpty ==
    /\ pc = "rewrite"
    /\ subtrees = <<>>
    /\ with_enhanced
    /\ LET remaining_arts == Artificials(tree)
           r == copy_to_empty(StartRun(tree), remaining_arts)
       IN  /\ tree' = r.tree
           /\ trail' = r.trail
           /\ error' = r.error
           /\ pc' = IF r.error # "" THEN "raised"
                    ELSE IF remaining_arts = <<>> THEN "done" ELSE "empty_deps"
    /\ visit' = NoVisit
    /\ UNCHANGED <<with_enhanced, construction, subtrees>>

\* the secondary edges of the empty nodes
EmptyNodeDeps ==
    /\ pc = "empty_deps"
    /\ LET r == EmptyDepsFrom(StartRun(tree), 1)
       IN  /\ tree' = r.tree
           /\ error' = r.error
           /\ pc' = IF r.error # "" THEN "raised" ELSE "node_deps"
    /\ trail' = <<>>
    /\ visit' = NoVisit
    /\ UNCHANGED <<with_enhanced, construction, subtrees>>

\* the secondary edges of the ordinary nodes
NodeDeps ==
    /\ pc = "node_deps"
    /\ LET r == NodeDepsFrom(StartRun(tree), 1)
       IN  /\ tree' = r.tree
           /\ error' = r.error
           /\ pc' = IF r.error # "" THEN "raised" ELSE "done"
    /\ trail' = <<>>
    /\ visit' = NoVisit
    /\ UNCHANGED <<with_enhanced, construction, subtrees>>

Next == Prepare \/ ProcessSubtree \/ Finish \/ CopyToEmpty \/ EmptyNodeDeps \/ NodeDeps

---------------------------------------------------------------------------
(* The sentences process_tree is given *)

Token(nodeType, original_dep, xpos, upos, deprel, coordMember, aposMember) ==
    [NodeType |-> nodeType, original_dep |-> original_dep, xpos |-> Str(xpos),
     upos |-> upos, deprel |-> deprel, CoordMember |-> coordMember,
     AposMember |-> aposMember]

Noun == Token("Ordinary", "OBJ", "n", "NOUN", Str("obl"), FALSE, FALSE)

Member == Token("Ordinary", "PNOM", "n", "NOUN", Str("nmod"), TRUE, TRUE)

Coordinator == Token("Ordinary", "AuxY", "c", "CCONJ", <<"cc", ":", "preconj">>, FALSE, FALSE)

Elided == Token("Artificial", "OBJ", "v", "VERB", Str("orphan"), FALSE, FALSE)

Continuation == Token("Ordinary", "AuxZ", "d", "X", goeswith, FALSE, FALSE)

Comma == Token("Ordinary", "AuxX", "u", "PUNCT", punct, FALSE, FALSE)

Constructions == {"bridge", "coord", "apos", "copula", "ellipsis"}

\* the tokens a sentence built around one kind of construction is drawn from
LexiconOf(kind) ==
    CASE kind = "bridge" -> {Noun, Continuation, Elided, Coordinator}
      [] kind = "coord" -> {Member, Coordinator, Elided, Comma}
      [] kind = "apos" -> {Member, Comma, Elided}
      [] kind = "copula" -> {Member, Continuation, Elided}
      [] kind = "ellipsis" -> {Noun, Member, Elided}
      [] kind = "none" -> {Noun, Coordinator, Elided}

MakeNode(p, tk) ==
    [parent |-> p, deprel |-> tk.deprel, upos |-> tk.upos, xpos |-> tk.xpos,
     misc |-> [NodeType |-> tk.NodeType, original_dep |-> tk.original_dep,
               CoordMember |-> tk.CoordMember, AposMember |-> tk.AposMember,
               art_deps |-> Empty, original_ord |-> Empty],
     deps |-> <<>>]

Sentence(n, par, toks) ==
    [nodes |-> [i \in 1..n |-> MakeNode(par[i], toks[i])],
     descendants |-> [i \in 1..n |-> i],
     empty_nodes |-> <<>>]

RECURSIVE ReachesRoot(_, _, _)
ReachesRoot(par, i, fuel) ==
    IF i = 0 THEN TRUE
    ELSE IF fuel = 0 THEN FALSE
    ELSE ReachesRoot(par, par[i], fuel - 1)

IsTreeShape(par, n) == \A i \in 1..n : ReachesRoot(par, i, n)

IsLeaf(par, n, i) == \A j \in 1..n : par[j] # i

InitialState(t, kinds, mode) ==
    /\ tree = t
    /\ construction = kinds
    /\ with_enhanced = mode
    /\ subtrees = <<>>
    /\ pc = "pre"
    /\ error = ""
    /\ trail = <<>>
    /\ visit = NoVisit

\* a sentence of at most MaxNodes tokens, of any shape and in either mode, in which the
\* classifier answers kind for every subtree root
InitOf(kind) ==
    \E n \in 1..MaxNodes :
      \E par \in [1..n -> 0..n] :
        /\ IsTreeShape(par, n)
        /\ \E toks \in [1..n -> LexiconOf(kind)], mode \in BOOLEAN :
             InitialState(Sentence(n, par, toks),
                          [i \in 1..n |-> IF IsLeaf(par, n, i) THEN "none" ELSE kind], mode)

\* the sentences built around one of the five constructions, and those in which no
\* subtree root matches any
Init == \E kind \in Constructions \cup {"none"} : InitOf(kind)

Spec == Init /\ [][Next]_vars

\* long sentences of ordinary and Artificial tokens hanging from the sentence root,
\* the last token possibly from the one before it
InitOrd ==
    \E n \in 1..MaxOrdNodes :
      \E last \in {0, n - 1}, kind \in {"bridge", "none"} :
        /\ last = 0 => kind = "none"
        /\ \E toks \in [1..n -> {Noun, Elided}], mode \in BOOLEAN :
             InitialState(Sentence(n, [i \in 1..n |-> IF i = n THEN last ELSE 0], toks),
                          [i \in 1..n |-> IF i = last THEN kind ELSE "none"], mode)

SpecOrd == InitOrd /\ [][Next]_vars

---------------------------------------------------------------------------
(* What the claims speak of *)

\* the last step was the visit of subtree root visit.node, classified as kind
Visited(kind) == visit.node # 0 /\ construction[visit.node] = kind

Before == visit.before

Seen(cs) == {cs[i] : i \in 1..Len(cs)}

\* no parent edge, no relation label and no node of the tree differs between t and u
SameEdges(t, u) ==
    /\ t.descendants = u.descendants
    /\ \A n \in NodesOf(t) :
          t.nodes[n].parent = u.nodes[n].parent /\ t.nodes[n].deprel = u.nodes[n].deprel

RECURSIVE ChainToRoot(_, _, _, _)
\* following parents from n reaches the sentence root through live nodes within fuel steps
ChainToRoot(par, live, n, fuel) ==
    IF n = 0 THEN TRUE
    ELSE IF fuel = 0 \/ n \notin live THEN FALSE
    ELSE ChainToRoot(par, live, par[n], fuel - 1)

IsTree(sn) ==
    LET live == Seen(sn.descendants)
    IN  \A n \in live : ChainToRoot(sn.parent, live, n, Len(sn.descendants))

\* C1: in every state process_tree goes through, after each single reparenting or
\* removal and at the end, in both modes, every node still in the tree reaches the
\* sentence root by following parents, through nodes of the tree and without repeats.
C1_TreeInvariant ==
    /\ IsTree(Snapshot(tree))
    /\ \A i \in 1..Len(trail) : IsTree(trail[i])

\* C1's case: a visit that reparented several nodes one by one and removed its
\* Artificial subtree root
C1_Witness ==
    /\ visit.node # 0
    /\ Len(trail) >= 4
    /\ visit.node \notin Alive(tree)
    /\ \E i \in 1..Len(trail) : trail[i].parent # Snapshot(Before).parent
                                /\ trail[i].parent # Snapshot(tree).parent

\* the precondition of the branch taken for subtree root s fails in tree t
FailsPrecondition(t, s) ==
    \/ construction[s] = "bridge" /\ Len(BridgeCandidates(t, s)) # 1
    \/ construction[s] = "coord" /\ CoordMembers(t, s) = <<>>
    \/ construction[s] = "apos" /\ AposMembers(t, s) = <<>>
    \/ construction[s] = "copula" /\ Pnoms(t, s) = <<>>
    \/ construction[s] = "ellipsis"
         /\ \A c \in Seen(Children(t, s)) : t.nodes[c].deprel \notin Seen(order_list)

\* C2: a visit whose branch fails its precondition changes no parent edge and no
\* relation label, and the loop goes on with the next subtree root.
C2_FailedVisitChangesNothing ==
    (visit.node # 0 /\ FailsPrecondition(Before, visit.node))
        => /\ SameEdges(Before, tree)
           /\ tree = Before
           /\ pc = "rewrite"
           /\ error = ""

\* C2's case: a bridge with two candidates or more was visited and the loop goes on
C2_Witness ==
    /\ Visited("bridge")
    /\ Len(BridgeCandidates(Before, visit.node)) >= 2
    /\ pc = "rewrite"

\* the bridge visit of a subtree root with exactly one promotion candidate
BridgeCase == Visited("bridge") /\ Len(BridgeCandidates(Before, visit.node)) = 1

BridgeRest(c) ==
    LET s == visit.node
    IN  /\ tree.nodes[c].parent = Before.nodes[s].parent
        /\ tree.nodes[s].parent = c
        /\ tree.nodes[s].deprel = Before.nodes[s].deprel
        /\ \A x \in Seen(Children(Before, s)) \ {c} :
              Udeprel(Before.nodes[x].deprel) # goeswith => tree.nodes[x].parent = c

\* C3 as claimed: the candidate takes S's parent and S's label, S hangs from the
\* candidate with its label, the other children that are not goeswith follow.
C3_BridgeAsClaimed ==
    BridgeCase =>
        LET c == BridgeCandidates(Before, visit.node)[1]
        IN  BridgeRest(c) /\ tree.nodes[c].deprel = Before.nodes[visit.node].deprel

\* C3, amended: the candidate takes S's parent and keeps its own label, S hangs from
\* the candidate with its label, the other children that are not goeswith follow.
C3_Bridge ==
    BridgeCase =>
        LET c == BridgeCandidates(Before, visit.node)[1]
        IN  BridgeRest(c) /\ tree.nodes[c].deprel = Before.nodes[c].deprel

\* C3's case: a bridge with one candidate, labeled otherwise than the bridge, and
\* another child that is not goeswith
C3_Witness ==
    /\ BridgeCase
    /\ LET s == visit.node
           c == BridgeCandidates(Before, s)[1]
       IN  /\ Before.nodes[c].deprel # Before.nodes[s].deprel
           /\ \E x \in Seen(Children(Before, s)) \ {c} :
                 Udeprel(Before.nodes[x].deprel) # goeswith

\* the coordination visit of a subtree root with at least one conjunct
CoordCase == Visited("coord") /\ CoordMembers(Before, visit.node) # <<>>

\* the conjuncts after the first hang from the first with label conj, and an
\* Artificial subtree root is gone
CoordRest(first) ==
    LET s == visit.node
        members == CoordMembers(Before, s)
    IN  /\ tree.nodes[first].parent = Before.nodes[s].parent
        /\ \A i \in 2..Len(members) :
              tree.nodes[members[i]].parent = first /\ tree.nodes[members[i]].deprel = conj
        /\ IsArtificial(Before, s) => s \notin Alive(tree)
        /\ ~IsArtificial(Before, s) => tree.nodes[s].deprel = Before.nodes[s].deprel

\* where the final pass of the coordination branch leaves the subtree root s: with the
\* first conj child of first that does not precede s when s is a cc or a punct that
\* does not precede first, with first otherwise
CoordHeadPlace(first) ==
    LET s == visit.node
        u == Udeprel(tree.nodes[s].deprel)
        right == SelectSeq(tree.descendants, LAMBDA b :
                     /\ b # s
                     /\ tree.nodes[b].parent = first
                     /\ Udeprel(tree.nodes[b].deprel) = conj
                     /\ ~Precedes(tree, b, s))
    IN  IF (u = cc \/ u = punct) /\ ~Precedes(tree, s, first) /\ right # <<>>
        THEN Head(right) ELSE first

\* C4 as claimed: the first conjunct takes S's parent and S's label, the other
\* conjuncts hang from it with label conj, and S hangs from it too, unless S is
\* Artificial and gone.
C4_CoordAsClaimed ==
    CoordCase =>
        LET s == visit.node
            first == CoordMembers(Before, s)[1]
        IN  /\ CoordRest(first)
            /\ tree.nodes[first].deprel = Before.nodes[s].deprel
            /\ ~IsArtificial(Before, s) => tree.nodes[s].parent = first

\* C4, amended: the first conjunct takes S's parent and keeps its own label, the other
\* conjuncts hang from it with label conj; S, unless Artificial and gone, keeps its
\* label and hangs from the first conjunct, or, being a cc or a punct that does not
\* precede the first conjunct, from the first conj child of the first conjunct that
\* does not precede S.
C4_Coord ==
    CoordCase =>
        LET s == visit.node
            first == CoordMembers(Before, s)[1]
        IN  /\ CoordRest(first)
            /\ tree.nodes[first].deprel = Before.nodes[first].deprel
            /\ ~IsArtificial(Before, s) => tree.nodes[s].parent = CoordHeadPlace(first)

\* C4's case: a coordinator between two conjuncts, labeled otherwise than the first,
\* which the final pass hands to the second conjunct
C4_Witness ==
    /\ CoordCase
    /\ LET s == visit.node
           members == CoordMembers(Before, s)
       IN  /\ Len(members) >= 2
           /\ ~IsArtificial(Before, s)
           /\ Before.nodes[members[1]].deprel # Before.nodes[s].deprel
           /\ tree.nodes[s].parent = members[2]

\* the copula visit
CopulaCase == Visited("copula")

\* C5 as claimed: a copula with no child, or with several children, of original label
\* PNOM is left as it was found.
C5_CopulaAsClaimed ==
    (CopulaCase /\ Len(Pnoms(Before, visit.node)) # 1) => SameEdges(Before, tree)

\* C5, amended: a copula with at least one child of original label PNOM is rewritten
\* around the first of them, which takes S's parent and S's label, while S becomes its
\* cop child or, being Artificial, goes; a copula with no such child is left as found.
C5_Copula ==
    CopulaCase =>
        LET s == visit.node
            found == Pnoms(Before, s)
            pnom == found[1]
        IN  IF found = <<>> THEN SameEdges(Before, tree)
            ELSE /\ tree.nodes[pnom].parent = Before.nodes[s].parent
                 /\ tree.nodes[pnom].deprel = Before.nodes[s].deprel
                 /\ IsArtificial(Before, s) => s \notin Alive(tree)
                 /\ ~IsArtificial(Before, s) =>
                        tree.nodes[s].parent = pnom /\ tree.nodes[s].deprel = cop

\* C5's case: a copula with two children of original label PNOM, the first promoted
C5_Witness ==
    /\ CopulaCase
    /\ Len(Pnoms(Before, visit.node)) >= 2
    /\ tree.nodes[visit.node].parent = Pnoms(Before, visit.node)[1]

\* the place of a label in the priority order, 0 when it is not listed
Rank(label) ==
    IF label \in Seen(order_list)
    THEN CHOOSE i \in 1..Len(order_list) : order_list[i] = label
    ELSE 0

\* the ellipsis visit of a subtree root with a child whose label is listed
EllipsisCase ==
    /\ Visited("ellipsis")
    /\ \E c \in Seen(Children(Before, visit.node)) : Rank(Before.nodes[c].deprel) > 0

C7_GenuineTokensStay ==
    \A n \in NodesOf(tree) : ~IsArtificial(tree, n) => n \in Alive(tree)

\* C8 as claimed: the reconstruction of the secondary edges raises no exception out
\* of process_tree, whatever head ordinal or relation label was recorded.
C8_ResolverFailSoft ==
    with_enhanced => error \notin {"IndexError", "ValueError"}

\* the pair recorded for n in the pre-pass
Recorded(n) == Split(tree.nodes[n].misc.art_deps, Sep)

\* C9 as claimed: in enhanced mode, once process_tree is over, every node that is not
\* Artificial and whose recorded head is an Artificial node replaced by an empty node
\* carries a secondary edge to that empty node with the recorded relation.
C9_OrdinaryNodeEdges ==
    (pc = "done" /\ with_enhanced) =>
        \A n \in Alive(tree) :
            (/\ ~IsArtificial(tree, n)
             /\ tree.nodes[n].misc.art_deps # Empty
             /\ Recorded(n)[1] \in ArtKeys(tree))
            => Dep("empty", ArtMapping(tree, Recorded(n)[1]), Recorded(n)[2])
                   \in Seen(tree.nodes[n].deps)

\* C10: the ordinal search of copy_to_empty ends for every Artificial node, and the
\* empty nodes bear pairwise distinct ordinals, each strictly between the ordinal of
\* the token before the node it replaces and the next integer.
C10_EmptyOrdinals ==
    LET es == tree.empty_nodes
    IN  /\ error # "RecursionError"
        /\ \A i, j \in 1..Len(es) : i # j => es[i].ord # es[j].ord
        /\ \A i \in 1..Len(es) :
              /\ es[i].anchor * OrdScale < es[i].ord
              /\ es[i].ord < (es[i].anchor + 1) * OrdScale

\* C10's case: ten or more empty nodes anchored after the same token, made from
\* Artificial nodes next to one another
C10_Witness ==
    LET es == tree.empty_nodes
    IN  /\ pc = "done"
        /\ \E k \in 0..MaxOrdNodes :
              Cardinality({i \in 1..Len(es) : es[i].anchor = k}) >= 10

====
